---------------------------- MODULE Spec2Model ----------------------------
(* SparkPostEmailBackend (sparkpost/django/email_backend.py): translation of  *)
(* a Django e-mail message into the parameters of transmissions.send, the     *)
(* validation that precedes it, and the batch loop of send_messages.          *)
(*                                                                            *)
(* A Python dict is a function whose DOMAIN is its set of keys; a message     *)
(* object is a function whose DOMAIN is its set of attributes, so that        *)
(* hasattr/getattr probe the DOMAIN.  A Python list is a sequence, a tuple    *)
(* (content, mimetype) is a pair whose Python index k is TLA+ index k+1.      *)
EXTENDS Integers, Sequences, FiniteSets, TLC

VARIABLES fail_silently, email_messages, idx, success, pc, propagated,
          call_count, log

vars == <<fail_silently, email_messages, idx, success, pc, propagated,
          call_count, log>>

----------------------------------------------------------------------------
(* Bounds of the model *)

MaxBatch == 2
MaxAlternatives == 2
MaxErrors == 2

SeqsUpTo(S, n) == UNION {[1..k -> S] : k \in 0..n}

----------------------------------------------------------------------------
(* Python dict operations *)

EmptyDict == <<>>

dict_pop(d, key) == [k \in (DOMAIN d) \ {key} |-> d[k]]

dict_update(d, other) ==
    [k \in (DOMAIN d) \cup (DOMAIN other) |->
        IF k \in DOMAIN other THEN other[k] ELSE d[k]]

dict_set(d, key, value) ==
    [k \in (DOMAIN d) \cup {key} |-> IF k = key THEN value ELSE d[k]]

hasattr(obj, name) == name \in DOMAIN obj

(* truthiness of dict.get(key): the key is present and its value is not the  *)
(* empty string                                                              *)
get_truthy(d, key) == key \in DOMAIN d /\ d[key] # ""

----------------------------------------------------------------------------
(* Exceptions: type, constructor arguments, and the errors attribute of a    *)
(* SparkPostAPIException                                                     *)

NoExc == [type |-> "None", args |-> <<>>, errors |-> <<>>]

UnsupportedParam(param) ==
    [type |-> "UnsupportedParam", args |-> <<param>>, errors |-> <<>>]

UnsupportedContent(what) ==
    [type |-> "UnsupportedContent", args |-> <<what>>, errors |-> <<>>]

InvalidInlineTemplate ==
    [type |-> "InvalidInlineTemplate", args |-> <<>>, errors |-> <<>>]

InvalidStoredTemplate(e) ==
    [type |-> "InvalidStoredTemplate", args |-> <<e>>, errors |-> <<>>]

SparkPostAPIException(errors) ==
    [type |-> "SparkPostAPIException", args |-> <<>>, errors |-> errors]

OtherException ==
    [type |-> "Exception", args |-> <<"boom">>, errors |-> <<>>]

ValidationErrors ==
    {"UnsupportedParam", "UnsupportedContent", "InvalidInlineTemplate"}

----------------------------------------------------------------------------
(* Inputs: messages *)

(* cc, bcc, reply_to and attachments are only tested for emptiness *)
AddrLists == {<<>>, <<"a@example.com">>}
AttachmentLists == {<<>>, <<"file.txt">>}

HTML == "text/html"
Alternatives ==
    {<<"<p>A</p>", HTML>>, <<"<p>B</p>", HTML>>, <<"alien", "text/alien">>}
AlternativeLists == SeqsUpTo(Alternatives, MaxAlternatives)

(* EmailMessage.sparkpost: any dict over these keys *)
OverrideValues ==
    [html |-> {"<p>O</p>"}, text |-> {"override text"},
     template |-> {"", "stored_template"}, subject |-> {"override subject"}]
OverrideKeys == {"html", "text", "template", "subject"}
Overrides ==
    UNION { {d \in [K -> {"<p>O</p>", "override text", "", "stored_template",
                          "override subject"}] :
                 \A k \in K : d[k] \in OverrideValues[k]} :
            K \in SUBSET OverrideKeys }

(* An optional attribute is a sequence of zero or one values *)
Optional(S) == {<<>>} \cup {<<v>> : v \in S}

MakeMessage(cc, bcc, reply_to, attachments, alternatives, sparkpost) ==
    LET attrs == {"to", "from_email", "subject", "body", "cc", "bcc",
                  "attachments"}
                 \cup (IF reply_to = <<>> THEN {} ELSE {"reply_to"})
                 \cup (IF alternatives = <<>> THEN {} ELSE {"alternatives"})
                 \cup (IF sparkpost = <<>> THEN {} ELSE {"sparkpost"})
    IN  [a \in attrs |->
            CASE a = "to" -> <<"to@example.com">>
              [] a = "from_email" -> "from@example.com"
              [] a = "subject" -> "test subject"
              [] a = "body" -> "test body"
              [] a = "cc" -> cc
              [] a = "bcc" -> bcc
              [] a = "attachments" -> attachments
              [] a = "reply_to" -> reply_to[1]
              [] a = "alternatives" -> alternatives[1]
              [] a = "sparkpost" -> sparkpost[1]]

Messages ==
    { MakeMessage(cc, bcc, rt, att, alt, sp) :
        cc \in AddrLists, bcc \in AddrLists, rt \in Optional(AddrLists),
        att \in AttachmentLists, alt \in Optional(AlternativeLists),
        sp \in Optional(Overrides) }

(* Messages of the multi-message batches: a plain message and one message    *)
(* for each validation error                                                 *)
PlainMessage == MakeMessage(<<>>, <<>>, <<>>, <<>>, <<>>, <<>>)
BatchMessages ==
    { PlainMessage,
      MakeMessage(<<"a@example.com">>, <<>>, <<>>, <<>>, <<>>, <<>>),
      MakeMessage(<<>>, <<>>, <<>>, <<"file.txt">>, <<>>, <<>>),
      MakeMessage(<<>>, <<>>, <<>>, <<>>, <<>>, <<[html |-> "<p>O</p>"]>>) }

Batches ==
    SeqsUpTo(BatchMessages, MaxBatch) \cup {<<m>> : m \in Messages}

----------------------------------------------------------------------------
(* Inputs: what transmissions.send does when it is called *)

Accepted == {1, 10}
ErrorCodes == {"1603", "1902"}
Responses ==
    { [total_accepted_recipients |-> n, total_rejected_recipients |-> 2] :
        n \in Accepted }
ErrorLists == SeqsUpTo({[code |-> c] : c \in ErrorCodes}, MaxErrors)

RemoteBehaviours ==
    { [raises |-> FALSE, response |-> r, exc |-> NoExc] : r \in Responses }
    \cup { [raises |-> TRUE, response |-> EmptyDict,
            exc |-> SparkPostAPIException(errs)] : errs \in ErrorLists }
    \cup { [raises |-> TRUE, response |-> EmptyDict, exc |-> OtherException] }

----------------------------------------------------------------------------
(* SparkPostEmailBackend *)

Raised(e) == e.type # "None"

(* what _send did with one message: whether transmissions.send was called,   *)
(* the keyword arguments of the call and what the call did, and the          *)
(* exception that left _send or the response it returned                     *)
Outcome(message, sent, params, exc, response, remote) ==
    [message |-> message, sent |-> sent, params |-> params, exc |-> exc,
     response |-> response, remote |-> remote]

NotCalled == [raises |-> FALSE, response |-> EmptyDict, exc |-> NoExc]

NotSent(message, exc) ==
    Outcome(message, FALSE, EmptyDict, exc, EmptyDict, NotCalled)

unsupported_params == <<"cc", "bcc", "reply_to">>

getattr_list(message, param) ==
    IF hasattr(message, param) THEN message[param] ELSE <<>>

(* the loop over the parameter names from the k-th on: the exception it      *)
(* raises, if any                                                            *)
RECURSIVE check_params(_, _, _)
check_params(message, params, k) ==
    IF k > Len(params) THEN NoExc
    ELSE IF Len(getattr_list(message, params[k])) > 0
         THEN UnsupportedParam(params[k])
         ELSE check_params(message, params, k + 1)

check_unsupported_bcc_first(message) ==
    check_params(message, <<"bcc", "cc", "reply_to">>, 1)

check_unsupported(message) == check_params(message, unsupported_params, 1)

check_attachments_skipped(message) == NoExc

check_attachments(message) ==
    IF Len(message.attachments) > 0
    THEN UnsupportedContent("attachment")
    ELSE NoExc

check_inline_template_html_only(sparkpost_cfg) ==
    IF "html" \in DOMAIN sparkpost_cfg /\ "text" \notin DOMAIN sparkpost_cfg
    THEN InvalidInlineTemplate
    ELSE NoExc

check_inline_template(sparkpost_cfg) ==
    IF ("html" \in DOMAIN sparkpost_cfg) # ("text" \in DOMAIN sparkpost_cfg)
    THEN InvalidInlineTemplate
    ELSE NoExc

base_params(message) ==
    [recipients |-> message.to, from_email |-> message.from_email,
     subject |-> message.subject, text |-> message.body]

(* getattr(message, 'sparkpost', None) is truthy: the attribute is there and *)
(* is a non-empty dict                                                       *)
has_sparkpost_cfg(message) ==
    hasattr(message, "sparkpost") /\ DOMAIN message.sparkpost # {}

apply_override_keep_text(params, sparkpost_cfg) ==
    dict_update(params, sparkpost_cfg)

apply_override(params, sparkpost_cfg) ==
    LET popped == IF get_truthy(sparkpost_cfg, "template")
                  THEN dict_pop(params, "text")
                  ELSE params
    IN  dict_update(popped, sparkpost_cfg)

has_alternatives(message) ==
    hasattr(message, "alternatives") /\ Len(message.alternatives) > 0

apply_alternatives_first_only(params, alternatives, k) ==
    IF alternatives[1][2] = "text/html"
    THEN [exc |-> NoExc,
          params |-> dict_set(params, "html", alternatives[1][1])]
    ELSE [exc |-> UnsupportedContent(alternatives[1][2]), params |-> params]

(* the loop over message.alternatives from its k-th element on: the params   *)
(* it leaves and the exception it raises, if any                             *)
RECURSIVE apply_alternatives(_, _, _)
apply_alternatives(params, alternatives, k) ==
    IF k > Len(alternatives) THEN [exc |-> NoExc, params |-> params]
    ELSE IF alternatives[k][2] = "text/html"
         THEN apply_alternatives(
                  dict_set(params, "html", alternatives[k][1]),
                  alternatives, k + 1)
         ELSE [exc |-> UnsupportedContent(alternatives[k][2]),
               params |-> params]

build_params_override_last(message) ==
    LET alt == IF has_alternatives(message)
               THEN apply_alternatives(base_params(message),
                                       message.alternatives, 1)
               ELSE [exc |-> NoExc, params |-> base_params(message)]
    IN  IF has_sparkpost_cfg(message)
           /\ Raised(check_inline_template(message.sparkpost))
        THEN [exc |-> check_inline_template(message.sparkpost),
              params |-> EmptyDict]
        ELSE IF Raised(alt.exc) \/ ~has_sparkpost_cfg(message) THEN alt
        ELSE [exc |-> NoExc,
              params |-> apply_override(alt.params, message.sparkpost)]

(* the construction of params, from the base dict to the end of the loop     *)
(* over the alternatives: the params and the exception raised, if any        *)
build_params(message) ==
    IF has_sparkpost_cfg(message)
       /\ Raised(check_inline_template(message.sparkpost))
    THEN [exc |-> check_inline_template(message.sparkpost),
          params |-> EmptyDict]
    ELSE LET params == IF has_sparkpost_cfg(message)
                       THEN apply_override(base_params(message),
                                           message.sparkpost)
                       ELSE base_params(message)
         IN  IF has_alternatives(message)
             THEN apply_alternatives(params, message.alternatives, 1)
             ELSE [exc |-> NoExc, params |-> params]

is_missing_template_first_error(e) ==
    Len(e.errors) > 0 /\ e.errors[1].code = "1603"

is_missing_template(e) ==
    \E j \in 1..Len(e.errors) : e.errors[j].code = "1603"

(* the except clause around transmissions.send: the exception that leaves    *)
(* _send when the call raised e                                              *)
on_send_exception(e) ==
    IF e.type = "SparkPostAPIException" /\ is_missing_template(e)
    THEN InvalidStoredTemplate(e)
    ELSE e

transmit(message, params, remote) ==
    IF remote.raises
    THEN Outcome(message, TRUE, params, on_send_exception(remote.exc),
                 EmptyDict, remote)
    ELSE Outcome(message, TRUE, params, NoExc, remote.response, remote)

_send_attachments_checked_late(message, remote) ==
    IF Raised(check_unsupported(message))
    THEN NotSent(message, check_unsupported(message))
    ELSE IF Raised(build_params(message).exc)
    THEN NotSent(message, build_params(message).exc)
    ELSE IF Raised(check_attachments(message))
    THEN Outcome(message, TRUE, build_params(message).params,
                 check_attachments(message), EmptyDict, remote)
    ELSE transmit(message, build_params(message).params, remote)

_send(message, remote) ==
    IF Raised(check_unsupported(message))
    THEN NotSent(message, check_unsupported(message))
    ELSE IF Raised(check_attachments(message))
    THEN NotSent(message, check_attachments(message))
    ELSE IF Raised(build_params(message).exc)
    THEN NotSent(message, build_params(message).exc)
    ELSE transmit(message, build_params(message).params, remote)

accumulate_messages(total, response) == total + 1

accumulate(total, response) == total + response.total_accepted_recipients

reraise_always(silent) == TRUE

(* except Exception: if not self.fail_silently: raise *)
reraise(silent) == ~silent

----------------------------------------------------------------------------
(* send_messages as a state machine: one step per iteration of its loop *)

Init ==
    /\ fail_silently \in BOOLEAN
    /\ email_messages \in Batches
    /\ idx = 0
    /\ success = 0
    /\ pc = "loop"
    /\ propagated = NoExc
    /\ call_count = 0
    /\ log = <<>>

(* one iteration: _send on the next message, then the try/except around it *)
SendMessage ==
    /\ pc = "loop"
    /\ idx < Len(email_messages)
    /\ \E remote \in RemoteBehaviours :
         LET r == _send(email_messages[idx + 1], remote) IN
         /\ idx' = idx + 1
         /\ log' = Append(log, r)
         /\ call_count' = call_count + (IF r.sent THEN 1 ELSE 0)
         /\ IF ~Raised(r.exc)
            THEN /\ success' = accumulate(success, r.response)
                 /\ UNCHANGED <<pc, propagated>>
            ELSE IF reraise(fail_silently)
            THEN /\ pc' = "raised"
                 /\ propagated' = r.exc
                 /\ UNCHANGED success
            ELSE UNCHANGED <<success, pc, propagated>>
    /\ UNCHANGED <<fail_silently, email_messages>>

(* the loop is exhausted: return success *)
Return ==
    /\ pc = "loop"
    /\ idx = Len(email_messages)
    /\ pc' = "returned"
    /\ UNCHANGED <<fail_silently, email_messages, idx, success, propagated,
                   call_count, log>>

Next == SendMessage \/ Return

Spec == Init /\ [][Next]_vars

----------------------------------------------------------------------------
(* Vocabulary of the properties, stated on the messages themselves *)

Entries == 1..Len(log)

Failed(i) == log[i].exc.type # "None"

SentCount == Cardinality({i \in Entries : log[i].sent})

RECURSIVE AcceptedSum(_)
AcceptedSum(n) ==
    IF n = 0 THEN 0
    ELSE AcceptedSum(n - 1)
         + (IF log[n].sent /\ ~log[n].remote.raises
            THEN log[n].remote.response.total_accepted_recipients
            ELSE 0)

NoEnvelopeExtras(m) ==
    /\ m.cc = <<>>
    /\ m.bcc = <<>>
    /\ ("reply_to" \in DOMAIN m => m.reply_to = <<>>)

FirstEnvelopeExtra(m) ==
    IF m.cc # <<>> THEN "cc" ELSE IF m.bcc # <<>> THEN "bcc" ELSE "reply_to"

NoAttachments(m) == m.attachments = <<>>

AlternativesOf(m) ==
    IF "alternatives" \in DOMAIN m THEN m.alternatives ELSE <<>>

OverrideKeysOf(m) ==
    IF "sparkpost" \in DOMAIN m THEN DOMAIN m.sparkpost ELSE {}

ExactlyOneInline(m) ==
    \/ ("html" \in OverrideKeysOf(m) /\ "text" \notin OverrideKeysOf(m))
    \/ ("text" \in OverrideKeysOf(m) /\ "html" \notin OverrideKeysOf(m))

AllHtml(alts) == \A k \in 1..Len(alts) : alts[k][2] = HTML

FirstNonHtml(alts) ==
    alts[CHOOSE k \in 1..Len(alts) :
            /\ alts[k][2] # HTML
            /\ \A j \in 1..(k - 1) : alts[j][2] = HTML][2]

HasCode1603(errors) == \E j \in DOMAIN errors : errors[j].code = "1603"

----------------------------------------------------------------------------
(* C1: with fail_silently off, the messages are handled in order, one call   *)
(* of transmissions.send per message; when none fails, n messages make n     *)
(* calls and the sum of total_accepted_recipients is returned; when one      *)
(* fails, its error is the one that leaves send_messages, and no later       *)
(* message is handled or sent.                                               *)
C1_InOrderSumOrFirstError ==
    ~fail_silently =>
        /\ Len(log) = idx
        /\ \A i \in Entries : log[i].message = email_messages[i]
        /\ call_count = SentCount
        /\ \A i \in Entries : Failed(i) => (i = Len(log) /\ pc = "raised")
        /\ pc = "returned" =>
              /\ Len(log) = Len(email_messages)
              /\ call_count = Len(email_messages)
              /\ success = AcceptedSum(Len(log))
        /\ pc = "raised" =>
              /\ Len(log) > 0
              /\ Failed(Len(log))
              /\ propagated.type = log[Len(log)].exc.type
              /\ propagated = log[Len(log)].exc
              /\ call_count <= Len(log)

C1_Witness ==
    /\ ~fail_silently
    /\ pc = "returned"
    /\ Len(email_messages) = 2
    /\ call_count = 2
    /\ log[1].response.total_accepted_recipients = 1
    /\ log[2].response.total_accepted_recipients = 10
    /\ success = 11

(* C2: with fail_silently on, send_messages never raises, every message of   *)
(* the batch is attempted whatever failed before it, a failed message adds   *)
(* 0, and the total returned is the sum of total_accepted_recipients over    *)
(* the messages whose send succeeded.                                        *)
C2_SilentNeverRaises ==
    fail_silently =>
        /\ pc # "raised"
        /\ propagated.type = "None"
        /\ Len(log) = idx
        /\ \A i \in Entries : log[i].message = email_messages[i]
        /\ success = AcceptedSum(Len(log))
        /\ pc = "returned" => Len(log) = Len(email_messages)

C2_Witness ==
    /\ fail_silently
    /\ pc = "returned"
    /\ Len(email_messages) = 2
    /\ Failed(1)
    /\ ~Failed(2)
    /\ log[2].response.total_accepted_recipients = 10
    /\ success = 10

(* C3: a message on which _send fails with UnsupportedParam,                 *)
(* UnsupportedContent or InvalidInlineTemplate has not been passed to        *)
(* transmissions.send, in either fail_silently mode.                         *)
C3_ValidationBeforeSend ==
    /\ call_count = SentCount
    /\ \A i \in Entries :
          log[i].exc.type \in ValidationErrors => ~log[i].sent

C3_Witness ==
    \E i \in Entries :
        /\ log[i].exc.type = "UnsupportedContent"
        /\ ~NoAttachments(log[i].message)
        /\ ~log[i].sent
        /\ call_count = 0


(* C4, as claimed: every message that declares more than one alternative     *)
(* part fails with UnsupportedContent, also when all its parts are html, so  *)
(* no such message is passed to transmissions.send.                          *)
C4_Claimed_MultipleAlternativesRejected ==
    \A i \in Entries :
        Len(AlternativesOf(log[i].message)) > 1 =>
            /\ ~log[i].sent
            /\ log[i].exc.type = "UnsupportedContent"

(* C4, amended: a message with more than one alternative part that has no    *)
(* cc, bcc, reply_to or attachments and passes the inline-template check     *)
(* fails with UnsupportedContent, unsent, when one of its parts is not html  *)
(* (the error names the first such part); when all its parts are html it is  *)
(* passed to transmissions.send with html set to the content of the last     *)
(* part.                                                                     *)
C4_MultipleAlternativesRejectedIffNonHtml ==
    \A i \in Entries :
        LET m == log[i].message
            alts == AlternativesOf(m)
        IN  (/\ Len(alts) > 1
             /\ NoEnvelopeExtras(m)
             /\ NoAttachments(m)
             /\ ~ExactlyOneInline(m)) =>
                IF AllHtml(alts)
                THEN /\ log[i].sent
                     /\ log[i].params.html = alts[Len(alts)][1]
                ELSE /\ ~log[i].sent
                     /\ log[i].exc.type = "UnsupportedContent"
                     /\ log[i].exc.args = <<FirstNonHtml(alts)>>

C4_Witness ==
    \E i \in Entries :
        LET alts == AlternativesOf(log[i].message)
        IN  /\ Len(alts) = 2
            /\ AllHtml(alts)
            /\ alts[1][1] # alts[2][1]
            /\ log[i].sent
            /\ ~Failed(i)
            /\ log[i].params.html = alts[2][1]

(* C5: when transmissions.send raises a SparkPostAPIException, _send fails   *)
(* with InvalidStoredTemplate carrying that exception if and only if its     *)
(* errors hold a record of code "1603", at any position; otherwise the       *)
(* exception leaves _send as it is.                                          *)
C5_StoredTemplateIff1603 ==
    \A i \in Entries :
        (/\ log[i].sent
         /\ log[i].remote.raises
         /\ log[i].remote.exc.type = "SparkPostAPIException") =>
            IF HasCode1603(log[i].remote.exc.errors)
            THEN /\ log[i].exc.type = "InvalidStoredTemplate"
                 /\ log[i].exc.args = <<log[i].remote.exc>>
            ELSE /\ log[i].exc.type = "SparkPostAPIException"
                 /\ log[i].exc = log[i].remote.exc

C5_Witness ==
    \E i \in Entries :
        /\ log[i].sent
        /\ log[i].remote.raises
        /\ Len(log[i].remote.exc.errors) = 2
        /\ log[i].remote.exc.errors[1].code # "1603"
        /\ log[i].remote.exc.errors[2].code = "1603"
        /\ log[i].exc.type = "InvalidStoredTemplate"

(* C6, as claimed: with a sparkpost dict that has html without text, or text *)
(* without html, _send fails with InvalidInlineTemplate; with both or        *)
(* neither it does not.                                                      *)
C6_Claimed_InlineTemplateXor ==
    \A i \in Entries :
        IF ExactlyOneInline(log[i].message)
        THEN log[i].exc.type = "InvalidInlineTemplate"
        ELSE log[i].exc.type # "InvalidInlineTemplate"

(* C6, amended: for a message with no cc, bcc, reply_to or attachments, a    *)
(* sparkpost dict that has html without text, or text without html, makes    *)
(* _send fail with InvalidInlineTemplate before anything is sent; with both  *)
(* or neither, whatever the message, _send does not fail with                *)
(* InvalidInlineTemplate.                                                    *)
C6_InlineTemplateXorAfterEarlierChecks ==
    \A i \in Entries :
        LET m == log[i].message
        IN  /\ (/\ ExactlyOneInline(m)
                /\ NoEnvelopeExtras(m)
                /\ NoAttachments(m)) =>
                    /\ log[i].exc.type = "InvalidInlineTemplate"
                    /\ ~log[i].sent
            /\ ~ExactlyOneInline(m) =>
                    log[i].exc.type # "InvalidInlineTemplate"

C6_Witness ==
    \E i \in Entries :
        /\ "text" \in OverrideKeysOf(log[i].message)
        /\ "html" \notin OverrideKeysOf(log[i].message)
        /\ log[i].exc.type = "InvalidInlineTemplate"
        /\ ~log[i].sent

(* C7, as claimed: whenever the sparkpost dict has a template key, the text  *)
(* of the message body is dropped: a text passed to transmissions.send is    *)
(* the one of the sparkpost dict, and with a dict of the form {template: t}  *)
(* no text is passed at all.                                                 *)
C7_Claimed_TemplateKeyDropsText ==
    \A i \in Entries :
        LET m == log[i].message
            keys == OverrideKeysOf(m)
        IN  (log[i].sent /\ "template" \in keys) =>
                /\ "text" \in DOMAIN log[i].params =>
                      /\ "text" \in keys
                      /\ log[i].params.text = m.sparkpost.text
                /\ keys = {"template"} => "text" \notin DOMAIN log[i].params

(* C7, amended: whenever the sparkpost dict has a template key whose value   *)
(* is not empty, the text of the message body is dropped: a text passed to   *)
(* transmissions.send is the one of the sparkpost dict, and with a dict of   *)
(* the form {template: t}, t not empty, no text is passed at all; with an    *)
(* empty template value and no text of its own the body is passed as text.   *)
C7_NonEmptyTemplateDropsText ==
    \A i \in Entries :
        LET m == log[i].message
            keys == OverrideKeysOf(m)
        IN  (log[i].sent /\ "template" \in keys) =>
                IF m.sparkpost.template # ""
                THEN /\ "text" \in DOMAIN log[i].params =>
                           /\ "text" \in keys
                           /\ log[i].params.text = m.sparkpost.text
                     /\ keys = {"template"} =>
                           "text" \notin DOMAIN log[i].params
                ELSE /\ "text" \in DOMAIN log[i].params
                     /\ "text" \notin keys => log[i].params.text = m.body

C7_Witness ==
    \E i \in Entries :
        /\ OverrideKeysOf(log[i].message) = {"template"}
        /\ log[i].message.sparkpost.template = "stored_template"
        /\ log[i].sent
        /\ ~Failed(i)
        /\ "text" \notin DOMAIN log[i].params
        /\ log[i].params.template = "stored_template"


(* C8: the params passed to transmissions.send are the base keys             *)
(* (recipients, from_email, subject, text), then the keys of the sparkpost   *)
(* dict on top of them, then html from the alternative part: with an html    *)
(* alternative part html is that part's content (the last part's, when       *)
(* there are several) even when the sparkpost dict has html too, every       *)
(* other key of the sparkpost dict is passed with the dict's value, and      *)
(* with no sparkpost dict and no alternative part the params are exactly     *)
(* the four base keys.                                                       *)
C8_ParamsPrecedence ==
    \A i \in Entries :
        LET m == log[i].message
            keys == OverrideKeysOf(m)
            alts == AlternativesOf(m)
            p == log[i].params
        IN  log[i].sent =>
                /\ alts # <<>> =>
                      /\ "html" \in DOMAIN p
                      /\ p.html = alts[Len(alts)][1]
                /\ \A k \in keys :
                      (k # "html" \/ alts = <<>>) =>
                          (k \in DOMAIN p /\ p[k] = m.sparkpost[k])
                /\ \A k \in {"recipients", "from_email", "subject"} \ keys :
                      k \in DOMAIN p
                /\ "recipients" \notin keys => p.recipients = m.to
                /\ "from_email" \notin keys => p.from_email = m.from_email
                /\ "subject" \notin keys => p.subject = m.subject
                /\ ("text" \notin keys /\ "template" \notin keys) =>
                      ("text" \in DOMAIN p /\ p.text = m.body)
                /\ (keys = {} /\ alts = <<>>) =>
                      p = [recipients |-> m.to, from_email |-> m.from_email,
                           subject |-> m.subject, text |-> m.body]

C8_Witness ==
    \E i \in Entries :
        LET m == log[i].message
        IN  /\ log[i].sent
            /\ ~Failed(i)
            /\ OverrideKeysOf(m) = {"html", "text", "subject"}
            /\ Len(AlternativesOf(m)) = 1
            /\ log[i].params.html = m.alternatives[1][1]
            /\ log[i].params.html # m.sparkpost.html
            /\ log[i].params.text = m.sparkpost.text
            /\ log[i].params.subject = m.sparkpost.subject

(* C9: a message with a non-empty cc, bcc or reply_to fails with             *)
(* UnsupportedParam before anything is sent; the error names the first       *)
(* non-empty one in the order cc, bcc, reply_to, whatever else is wrong      *)
(* with the message (attachments, inline template, alternative parts).       *)
C9_EnvelopeExtrasRejectedFirst ==
    \A i \in Entries :
        ~NoEnvelopeExtras(log[i].message) =>
            /\ ~log[i].sent
            /\ log[i].exc.type = "UnsupportedParam"
            /\ log[i].exc.args = <<FirstEnvelopeExtra(log[i].message)>>

C9_Witness ==
    \E i \in Entries :
        LET m == log[i].message
        IN  /\ m.cc # <<>>
            /\ m.bcc # <<>>
            /\ ~NoAttachments(m)
            /\ ExactlyOneInline(m)
            /\ ~AllHtml(AlternativesOf(m))
            /\ log[i].exc.type = "UnsupportedParam"
            /\ log[i].exc.args = <<"cc">>
            /\ ~log[i].sent

(* C10, as claimed: a message with an attachment, and a message with an      *)
(* alternative part that is not html, fails with UnsupportedContent,         *)
(* whatever its other fields and its sparkpost dict.                         *)
C10_Claimed_UnsupportedContentAlways ==
    \A i \in Entries :
        LET m == log[i].message
        IN  (~NoAttachments(m) \/ ~AllHtml(AlternativesOf(m))) =>
                log[i].exc.type = "UnsupportedContent"

(* C10, amended: a message with no cc, bcc or reply_to fails with            *)
(* UnsupportedContent, unsent, when it has an attachment, and also when it   *)
(* has no attachment, an alternative part that is not html, and a sparkpost  *)
(* dict (if any) with both or neither of html and text.                      *)
C10_UnsupportedContentAfterEarlierChecks ==
    \A i \in Entries :
        LET m == log[i].message
        IN  /\ (NoEnvelopeExtras(m) /\ ~NoAttachments(m)) =>
                  /\ log[i].exc.type = "UnsupportedContent"
                  /\ log[i].exc.args = <<"attachment">>
                  /\ ~log[i].sent
            /\ (/\ NoEnvelopeExtras(m)
                /\ NoAttachments(m)
                /\ ~ExactlyOneInline(m)
                /\ ~AllHtml(AlternativesOf(m))) =>
                  /\ log[i].exc.type = "UnsupportedContent"
                  /\ log[i].exc.args = <<FirstNonHtml(AlternativesOf(m))>>
                  /\ ~log[i].sent

C10_Witness ==
    \E i \in Entries :
        LET m == log[i].message
        IN  /\ ~NoAttachments(m)
            /\ "sparkpost" \in DOMAIN m
            /\ Len(AlternativesOf(m)) > 0
            /\ AllHtml(AlternativesOf(m))
            /\ log[i].exc.type = "UnsupportedContent"
            /\ log[i].exc.args = <<"attachment">>
            /\ ~log[i].sent

=============================================================================
